---- MODULE Spec2Model ----
(***************************************************************************)
(* A model of database_insight's Toad DDL extractor                        *)
(* (src/database_insight/adapters/toad_parser.py) and of the schema model  *)
(* it fills (src/database_insight/models/schema.py).                       *)
(*                                                                         *)
(* Text is modelled character by character: a Python str is a sequence of  *)
(* one-character strings, and the str and re operations the extractor      *)
(* uses are operators over such sequences.  An Optional value is None (the *)
(* empty sequence) or Some(v) (the one-element sequence <<v>>).  A dict is *)
(* a function whose DOMAIN is its key set.                                 *)
(***************************************************************************)
EXTENDS Integers, Sequences, FiniteSets, TLC

VARIABLES
    content,          \* ToadDdlParser.content: the document, as its statements
    done,             \* the steps of parse() (or the function called) completed so far
    metadata,         \* parse(): metadata
    tables,           \* parse(): tables
    table_comments,   \* parse(): table_comments
    column_comments,  \* parse(): column_comments
    views,            \* parse(): views
    procedures,       \* parse(): procedures
    primary_keys,     \* parse(): primary_keys
    foreign_keys,     \* parse(): foreign_keys
    schema_model,     \* the SchemaModel parse() returns
    merges,           \* number of times the merge loop of parse() has run
    columns_block,    \* _parse_columns: its argument
    columns,          \* _parse_columns: its result
    params_str,       \* _parse_procedures: the parameter text of one PROCEDURE declaration
    procedure,        \* _parse_procedures: the Procedure built from it
    comment_src,      \* _parse_table_comments: the text from the opening quote on
    comment           \* _parse_table_comments: the comment stored for it

vars == <<content, done, metadata, tables, table_comments, column_comments, views,
          procedures, primary_keys, foreign_keys, schema_model, merges,
          columns_block, columns, params_str, procedure, comment_src, comment>>

-----------------------------------------------------------------------------
(* Optional values and small helpers *)

None == <<>>

Some(v) == <<v>>

Min(S) == CHOOSE x \in S : \A y \in S : x <= y

Max(S) == CHOOSE x \in S : \A y \in S : x >= y

-----------------------------------------------------------------------------
(* Characters: the classes \s, \d and \w of Python's re, and str.upper *)

Whitespace == {" ", "\n", "\t"}

DigitChars == <<"0","1","2","3","4","5","6","7","8","9">>

Digit == {DigitChars[i] : i \in 1..10}

LowerLetters == <<"a","b","c","d","e","f","g","h","i","j","k","l","m",
                  "n","o","p","q","r","s","t","u","v","w","x","y","z">>

UpperLetters == <<"A","B","C","D","E","F","G","H","I","J","K","L","M",
                  "N","O","P","Q","R","S","T","U","V","W","X","Y","Z">>

WordChar == {LowerLetters[i] : i \in 1..26} \cup {UpperLetters[i] : i \in 1..26}
            \cup Digit \cup {"_"}

UpperChar(c) ==
    IF \E i \in 1..26 : LowerLetters[i] = c
    THEN UpperLetters[CHOOSE i \in 1..26 : LowerLetters[i] = c]
    ELSE c

-----------------------------------------------------------------------------
(* Python str operations *)

\* s.upper()
upper(s) == IF s = <<>> THEN <<>> ELSE [i \in 1..Len(s) |-> UpperChar(s[i])]

\* pat occurs in s at position p (1-based)
StartsWithAt(s, p, pat) ==
    /\ p >= 1
    /\ p + Len(pat) - 1 <= Len(s)
    /\ \A k \in 1..Len(pat) : s[p + k - 1] = pat[k]

\* the same, ignoring case (re.IGNORECASE)
StartsWithAtCI(s, p, pat) ==
    /\ p >= 1
    /\ p + Len(pat) - 1 <= Len(s)
    /\ \A k \in 1..Len(pat) : UpperChar(s[p + k - 1]) = UpperChar(pat[k])

\* pat in s
contains(s, pat) == \E p \in 1..Len(s) : StartsWithAt(s, p, pat)

RECURSIVE ReplaceFrom(_, _, _, _)
ReplaceFrom(s, p, old, new) ==
    IF p > Len(s) THEN <<>>
    ELSE IF StartsWithAt(s, p, old)
         THEN new \o ReplaceFrom(s, p + Len(old), old, new)
         ELSE <<s[p]>> \o ReplaceFrom(s, p + 1, old, new)

\* s.replace(old, new): every non-overlapping occurrence, left to right
replace(s, old, new) == ReplaceFrom(s, 1, old, new)

RECURSIVE SplitFrom(_, _, _, _)
SplitFrom(s, p, sep, cur) ==
    IF p > Len(s) THEN <<cur>>
    ELSE IF s[p] = sep
         THEN <<cur>> \o SplitFrom(s, p + 1, sep, <<>>)
         ELSE SplitFrom(s, p + 1, sep, Append(cur, s[p]))

\* s.split(sep) for a one-character separator
split(s, sep) == SplitFrom(s, 1, sep, <<>>)

\* s.strip()
strip(s) ==
    LET keep == {i \in 1..Len(s) : s[i] \notin Whitespace}
    IN  IF keep = {} THEN <<>> ELSE SubSeq(s, Min(keep), Max(keep))

RECURSIVE SplitWsFrom(_, _, _)
SplitWsFrom(s, p, cur) ==
    IF p > Len(s) THEN (IF cur = <<>> THEN <<>> ELSE <<cur>>)
    ELSE IF s[p] \in Whitespace
         THEN (IF cur = <<>> THEN <<>> ELSE <<cur>>) \o SplitWsFrom(s, p + 1, <<>>)
         ELSE SplitWsFrom(s, p + 1, Append(cur, s[p]))

\* s.split(): the runs of non-whitespace characters
split_ws(s) == SplitWsFrom(s, 1, <<>>)

RECURSIVE join(_, _)
\* sep.join(parts)
join(sep, parts) ==
    IF parts = <<>> THEN <<>>
    ELSE IF Len(parts) = 1 THEN parts[1]
         ELSE parts[1] \o sep \o join(sep, Tail(parts))

DigitValue(c) == CHOOSE d \in 0..9 : DigitChars[d + 1] = c

RECURSIVE int(_)
\* int(s) for a string of decimal digits
int(s) ==
    IF s = <<>> THEN 0
    ELSE int(SubSeq(s, 1, Len(s) - 1)) * 10 + DigitValue(s[Len(s)])

\* the first position q >= p of s whose character is not in class (Len(s)+1 if none):
\* where a greedy run of class characters starting at p ends
SkipWhile(s, p, class) ==
    Min({q \in p..(Len(s) + 1) : q = Len(s) + 1 \/ s[q] \notin class})

\* the first position q >= p of s whose character is in stop (Len(s)+1 if none)
SkipUntil(s, p, stop) ==
    Min({q \in p..(Len(s) + 1) : q = Len(s) + 1 \/ s[q] \in stop})

-----------------------------------------------------------------------------
(* _parse_columns: the column pattern, matched character by character *)

NoMatch == [matched |-> FALSE]

\* the data types of col_pattern, in the order of its alternation
ColumnTypes == <<
    <<"V","A","R","C","H","A","R","2">>,
    <<"N","U","M","B","E","R">>,
    <<"D","A","T","E">>,
    <<"T","I","M","E","S","T","A","M","P">>,
    <<"C","H","A","R">>,
    <<"C","L","O","B">>,
    <<"B","L","O","B">>,
    <<"I","N","T","E","G","E","R">>,
    <<"X","M","L","T","Y","P","E">>,
    <<"R","A","W">>,
    <<"S","Y","S",".","X","M","L","T","Y","P","E">> >>

kwBYTE == <<"B","Y","T","E">>

kwNOT_NULL == <<"N","O","T"," ","N","U","L","L">>

kwNUMBER == <<"N","U","M","B","E","R">>

\* the types whose size is a max_length
CharacterTypes == {<<"V","A","R","C","H","A","R","2">>, <<"C","H","A","R">>, <<"R","A","W">>}

\* leading words that mark a line as no column
NonColumnWords == {
    <<"S","U","P","P","L","E","M","E","N","T","A","L">>,
    <<"C","O","N","S","T","R","A","I","N","T">>,
    <<"P","R","I","M","A","R","Y">>,
    <<"F","O","R","E","I","G","N">>,
    <<"U","N","I","Q","U","E">>,
    <<"C","H","E","C","K">> }

\* (VARCHAR2|NUMBER|...) at t: the index of the first alternative that matches, 0 if none
TypeMatch(s, t) ==
    LET hits == {k \in 1..Len(ColumnTypes) : StartsWithAtCI(s, t, ColumnTypes[k])}
    IN  IF hits = {} THEN 0 ELSE Min(hits)

\* (?:\((\d+)(?:\s*BYTE)?(?:,(\d+))?\))? at p: the optional size group.  The group
\* matches only as a whole; when it does not, it matches empty and captures nothing.
SizeMatch(s, p) ==
    LET absent == [size |-> None, scale |-> None, end |-> p]
    IN  IF ~StartsWithAt(s, p, <<"(">>) THEN absent
        ELSE LET d1 == SkipWhile(s, p + 1, Digit)
             IN  IF d1 = p + 1 THEN absent
                 ELSE LET w   == SkipWhile(s, d1, Whitespace)
                          b   == IF StartsWithAtCI(s, w, kwBYTE) THEN w + Len(kwBYTE) ELSE d1
                          c   == IF StartsWithAt(s, b, <<",">>)
                                 THEN SkipWhile(s, b + 1, Digit) ELSE b
                          two == c > b + 1
                          e   == IF two THEN c ELSE b
                      IN  IF StartsWithAt(s, e, <<")">>)
                          THEN [size  |-> Some(SubSeq(s, p + 1, d1 - 1)),
                                scale |-> IF two THEN Some(SubSeq(s, b + 1, c - 1)) ELSE None,
                                end   |-> e + 1]
                          ELSE absent

\* col_pattern at a line start p:
\*   ^\s*(\w+)\s+(types)(size group)([^,\n]*)
\* Greedy runs cannot give characters back here (what follows each run cannot start
\* with a character of the run), so the match is determined by p.
ColMatch(s, p) ==
    LET q == SkipWhile(s, p, Whitespace)
        r == SkipWhile(s, q, WordChar)
        t == SkipWhile(s, r, Whitespace)
        k == TypeMatch(s, t)
    IN  IF r = q \/ t = r \/ k = 0 THEN NoMatch
        ELSE LET a  == t + Len(ColumnTypes[k])
                 sz == SizeMatch(s, a)
                 e  == SkipUntil(s, sz.end, {",", "\n"})
             IN  [matched   |-> TRUE,
                  name      |-> SubSeq(s, q, r - 1),
                  data_type |-> SubSeq(s, t, a - 1),
                  size      |-> sz.size,
                  scale     |-> sz.scale,
                  rest      |-> SubSeq(s, sz.end, e - 1),
                  end       |-> e]

RECURSIVE ColFindIter(_, _)
\* col_pattern.finditer(columns_block) from position p (re.MULTILINE: ^ is a line start)
ColFindIter(s, p) ==
    IF p > Len(s) THEN <<>>
    ELSE LET m == IF p = 1 \/ s[p - 1] = "\n" THEN ColMatch(s, p) ELSE NoMatch
         IN  IF m.matched
             THEN <<m>> \o ColFindIter(s, m.end)
             ELSE ColFindIter(s, p + 1)

\* line 122
Nullable(rest) == ~contains(upper(rest), kwNOT_NULL)

\* line 130
MaxLength(data_type, size) ==
    IF size # None /\ upper(data_type) \in CharacterTypes THEN Some(int(size[1])) ELSE None

\* line 131
Precision(data_type, size) ==
    IF size # None /\ upper(data_type) = kwNUMBER THEN Some(int(size[1])) ELSE None

\* line 132
Scale(data_type, scale) ==
    IF scale # None THEN Some(int(scale[1])) ELSE None

\* Column(...) of one match; default_value is not modelled (nothing below reads it)
Column(m) ==
    [name       |-> m.name,
     data_type  |-> upper(m.data_type),
     nullable   |-> Nullable(m.rest),
     max_length |-> MaxLength(m.data_type, m.size),
     precision  |-> Precision(m.data_type, m.size),
     scale      |-> Scale(m.data_type, m.scale),
     comment    |-> None]

RECURSIVE ColumnsOf(_)
ColumnsOf(ms) ==
    IF ms = <<>> THEN <<>>
    ELSE IF upper(ms[1].name) \in NonColumnWords
         THEN ColumnsOf(Tail(ms))
         ELSE <<Column(ms[1])>> \o ColumnsOf(Tail(ms))

parse_columns(block) == ColumnsOf(ColFindIter(block, 1))

-----------------------------------------------------------------------------
(* _parse_procedure_parameters and has_refcursor_out *)

kwIN == <<"I","N">>

kwOUT == <<"O","U","T">>

kwIN_OUT == <<"I","N"," ","O","U","T">>

kwREF == <<"R","E","F">>

kwCURSOR == <<"C","U","R","S","O","R">>

\* IN\s+OUT at t: the position after it, 0 if it does not match
InOutMatch(s, t) ==
    IF ~StartsWithAtCI(s, t, kwIN) THEN 0
    ELSE LET w == SkipWhile(s, t + Len(kwIN), Whitespace)
         IN  IF w > t + Len(kwIN) /\ StartsWithAtCI(s, w, kwOUT) THEN w + Len(kwOUT) ELSE 0

\* the ends of the alternatives of (IN\s+OUT|OUT|IN) at t, in the order the pattern
\* tries them (0: the alternative does not match)
DirectionEnds(s, t) ==
    << InOutMatch(s, t),
       IF StartsWithAtCI(s, t, kwOUT) THEN t + Len(kwOUT) ELSE 0,
       IF StartsWithAtCI(s, t, kwIN) THEN t + Len(kwIN) ELSE 0 >>

\* \s+(.+) at a to the end of s: the start of the (.+) group, 0 if it does not match.
\* s is stripped, so the whitespace run is never the end of s.
TypeStart(s, a) ==
    LET b == SkipWhile(s, a, Whitespace)
    IN  IF b > a /\ b <= Len(s) THEN b ELSE 0

\* re.match(r'(\w+)\s+(IN\s+OUT|OUT|IN)\s+(.+)', param, re.IGNORECASE)
DirectionMatch(s) ==
    LET r    == SkipWhile(s, 1, WordChar)
        t    == SkipWhile(s, r, Whitespace)
        ends == DirectionEnds(s, t)
        ok   == {k \in 1..3 : ends[k] # 0 /\ TypeStart(s, ends[k]) # 0}
    IN  IF r = 1 \/ t = r \/ ok = {} THEN NoMatch
        ELSE LET k == Min(ok)
             IN  [matched |-> TRUE,
                  g1 |-> SubSeq(s, 1, r - 1),
                  g2 |-> SubSeq(s, t, ends[k] - 1),
                  g3 |-> SubSeq(s, TypeStart(s, ends[k]), Len(s))]

\* re.match(r'(\w+)\s+(.+)', param, re.IGNORECASE)
PlainMatch(s) ==
    LET r == SkipWhile(s, 1, WordChar)
    IN  IF r = 1 \/ TypeStart(s, r) = 0 THEN NoMatch
        ELSE [matched |-> TRUE,
              g1 |-> SubSeq(s, 1, r - 1),
              g2 |-> SubSeq(s, TypeStart(s, r), Len(s))]

\* the ProcedureParameter of one comma-separated piece, as a sequence of 0 or 1
ParameterOf(piece) ==
    LET param == strip(piece)
        m1    == DirectionMatch(param)
        m2    == PlainMatch(param)
    IN  IF param = <<>> THEN <<>>
        ELSE IF m1.matched
             THEN << [name |-> m1.g1, direction |-> upper(strip(m1.g2)),
                      data_type |-> strip(m1.g3)] >>
             ELSE IF m2.matched
                  THEN << [name |-> m2.g1, direction |-> kwIN, data_type |-> strip(m2.g2)] >>
                  ELSE <<>>

RECURSIVE ParametersOf(_)
ParametersOf(pieces) ==
    IF pieces = <<>> THEN <<>>
    ELSE ParameterOf(pieces[1]) \o ParametersOf(Tail(pieces))

parse_procedure_parameters(str) ==
    ParametersOf(split(join(<<" ">>, split_ws(str)), ","))

\* has_refcursor_out testing the direction against 'OUT' alone
has_refcursor_out_only_OUT(params) ==
    \E i \in 1..Len(params) :
        /\ params[i].direction = kwOUT
        /\ contains(upper(params[i].data_type), kwREF)
        /\ contains(upper(params[i].data_type), kwCURSOR)

\* lines 238-242
has_refcursor_out(params) ==
    \E i \in 1..Len(params) :
        /\ params[i].direction \in {kwOUT, kwIN_OUT}
        /\ contains(upper(params[i].data_type), kwREF)
        /\ contains(upper(params[i].data_type), kwCURSOR)

-----------------------------------------------------------------------------
(* Comments: the literal of a COMMENT ON statement and its unescaping *)

RECURSIVE UnitEnds(_, _)
\* the positions (?:[^']|'')* can stop at when it starts at p: after each unit it
\* can consume, a unit being one character other than a quote, or two quotes
UnitEnds(s, p) ==
    {p} \cup
    IF p > Len(s) THEN {}
    ELSE IF s[p] # "'" THEN UnitEnds(s, p + 1)
         ELSE IF StartsWithAt(s, p, <<"'", "'">>) THEN UnitEnds(s, p + 2)
              ELSE {}

\* '((?:[^']|'')*)' at the start of text: the group is greedy, and gives units back
\* until a closing quote follows
CommentMatch(text) ==
    LET closes == {e \in UnitEnds(text, 2) : StartsWithAt(text, e, <<"'">>)}
    IN  IF ~StartsWithAt(text, 1, <<"'">>) \/ closes = {} THEN NoMatch
        ELSE [matched |-> TRUE, comment |-> SubSeq(text, 2, Max(closes) - 1)]

\* the comment stored as captured, its quotes still doubled
unescape_skipped(body) == body

\* comment.replace("''", "'")
unescape(body) == replace(body, <<"'", "'">>, <<"'">>)

-----------------------------------------------------------------------------
(* The document.  self.content is modelled as the sequence of its statements: *)
(* each is a piece of text that exactly one top-level pattern of the parser   *)
(* matches (or none, for filler), with the groups that pattern captures, and  *)
(* len, its length in characters.  pattern.finditer(self.content) visits the  *)
(* statements of the pattern's kind in document order.                        *)

UNKNOWN == <<"U","N","K","N","O","W","N">>

\* dict.get(k) for a dict d
Get(d, k) == IF k \in DOMAIN d THEN Some(d[k]) ELSE None

\* the statements of one kind, in document order
Matches(doc, kind) == SelectSeq(doc, LAMBDA st : st.kind = kind)

RECURSIVE Offset(_, _)
\* the offset in self.content of the first character of statement i
Offset(doc, i) == IF i = 1 THEN 0 ELSE Offset(doc, i - 1) + doc[i - 1].len

\* _parse_metadata
parse_metadata(doc) ==
    LET v == Matches(doc, "version")
        s == Matches(doc, "schema")
    IN  [database_version |-> IF v = <<>> THEN None ELSE Some(strip(v[1].text)),
         schema_name      |-> IF s = <<>> THEN None ELSE Some(strip(s[1].name))]

\* metadata.get('schema_name', ''): no default for a document without schema marker
DefaultSchemaEmpty(md) == IF md.schema_name = None THEN <<>> ELSE md.schema_name[1]

\* metadata.get('schema_name', 'UNKNOWN')
DefaultSchema(md) == IF md.schema_name = None THEN UNKNOWN ELSE md.schema_name[1]

\* lines 84-89: the row count hint looked for before the table statement i
LOOKBACK == 200

\* the hint searched for in all of content[:match.start()]
RowCountWholePrefix(doc, i) ==
    LET before == {j \in 1..(i - 1) : doc[j].kind = "hint"}
    IN  IF before = {} THEN 0 ELSE int(doc[Min(before)].digits)

\* the hint nearest to the table statement, the last one of the window
RowCountNearest(doc, i) ==
    LET start     == Offset(doc, i)
        start_pos == IF start - LOOKBACK > 0 THEN start - LOOKBACK ELSE 0
        inside    == {j \in 1..(i - 1) : doc[j].kind = "hint" /\ Offset(doc, j) >= start_pos}
    IN  IF inside = {} THEN 0 ELSE int(doc[Max(inside)].digits)

RowCount(doc, i) ==
    LET start     == Offset(doc, i)
        start_pos == IF start - LOOKBACK > 0 THEN start - LOOKBACK ELSE 0
        inside    == {j \in 1..(i - 1) : doc[j].kind = "hint" /\ Offset(doc, j) >= start_pos}
    IN  IF inside = {} THEN 0 ELSE int(doc[Min(inside)].digits)

\* lines 77-98: the Table of the table statement i
TableOf(doc, i) ==
    [name         |-> doc[i].name,
     schema_name  |-> IF doc[i].schema = None THEN DefaultSchema(parse_metadata(doc))
                      ELSE doc[i].schema[1],
     columns      |-> parse_columns(doc[i].block),
     row_count    |-> RowCount(doc, i),
     comment      |-> None,
     primary_key  |-> None,
     foreign_keys |-> <<>>]

RECURSIVE TablesUpTo(_, _)
TablesUpTo(doc, n) ==
    IF n = 0 THEN <<>>
    ELSE IF doc[n].kind = "table"
         THEN Append(TablesUpTo(doc, n - 1), TableOf(doc, n))
         ELSE TablesUpTo(doc, n - 1)

\* _parse_tables
parse_tables(doc) == TablesUpTo(doc, Len(doc))

RECURSIVE TableComments(_)
TableComments(ms) ==
    IF ms = <<>> THEN <<>>
    ELSE LET st   == ms[Len(ms)]
             m    == CommentMatch(st.text)
             prev == TableComments(SubSeq(ms, 1, Len(ms) - 1))
         IN  IF m.matched THEN (st.table :> unescape(m.comment)) @@ prev ELSE prev

\* _parse_table_comments
parse_table_comments(doc) == TableComments(Matches(doc, "table_comment"))

RECURSIVE ColumnComments(_)
ColumnComments(ms) ==
    IF ms = <<>> THEN <<>>
    ELSE LET st   == ms[Len(ms)]
             m    == CommentMatch(st.text)
             prev == ColumnComments(SubSeq(ms, 1, Len(ms) - 1))
             old  == IF st.table \in DOMAIN prev THEN prev[st.table] ELSE <<>>
         IN  IF m.matched
             THEN (st.table :> ((st.column :> unescape(m.comment)) @@ old)) @@ prev
             ELSE prev

\* _parse_column_comments
parse_column_comments(doc) == ColumnComments(Matches(doc, "column_comment"))

\* [col.strip() for col in columns_str.replace('\n', ' ').split(',')]
column_list(columns_str) ==
    LET parts == split(replace(columns_str, <<"\n">>, <<" ">>), ",")
    IN  [k \in 1..Len(parts) |-> strip(parts[k])]

ViewOf(doc, st) ==
    [name             |-> st.name,
     schema_name      |-> IF st.schema = None THEN DefaultSchema(parse_metadata(doc))
                          ELSE st.schema[1],
     columns          |-> column_list(st.columns_str),
     select_statement |-> strip(st.select),
     comment          |-> None]

\* _parse_views
parse_views(doc) ==
    LET ms == Matches(doc, "view") IN [k \in 1..Len(ms) |-> ViewOf(doc, ms[k])]

ProcedureOf(schema_name, package_name, decl) ==
    LET params == parse_procedure_parameters(decl.params_str)
    IN  [name              |-> decl.name,
         package_name      |-> package_name,
         schema_name       |-> schema_name,
         parameters        |-> params,
         has_refcursor_out |-> has_refcursor_out(params)]

RECURSIVE Procedures(_, _)
Procedures(doc, ms) ==
    IF ms = <<>> THEN <<>>
    ELSE LET st     == ms[1]
             schema == IF st.schema = None THEN DefaultSchema(parse_metadata(doc))
                       ELSE st.schema[1]
         IN  [k \in 1..Len(st.procs) |-> ProcedureOf(schema, st.name, st.procs[k])]
             \o Procedures(doc, Tail(ms))

\* _parse_procedures
parse_procedures(doc) == Procedures(doc, Matches(doc, "package"))

RECURSIVE PrimaryKeysFirstWins(_)
\* a primary key kept once stored: the first statement for a table wins
PrimaryKeysFirstWins(ms) ==
    IF ms = <<>> THEN <<>>
    ELSE LET st == ms[Len(ms)]
         IN  PrimaryKeysFirstWins(SubSeq(ms, 1, Len(ms) - 1))
             @@ (st.table :> [constraint_name |-> st.constraint,
                              columns         |-> column_list(st.columns_str)])

RECURSIVE PrimaryKeys(_)
PrimaryKeys(ms) ==
    IF ms = <<>> THEN <<>>
    ELSE LET st == ms[Len(ms)]
         IN  (st.table :> [constraint_name |-> st.constraint,
                           columns         |-> column_list(st.columns_str)])
             @@ PrimaryKeys(SubSeq(ms, 1, Len(ms) - 1))

\* _parse_primary_keys
parse_primary_keys(doc) == PrimaryKeys(Matches(doc, "primary_key"))

\* both column lists read from the FOREIGN KEY list
ForeignKeyOfSameList(st) ==
    [constraint_name    |-> st.constraint,
     columns            |-> column_list(st.columns_str),
     referenced_table   |-> st.ref_table,
     referenced_columns |-> column_list(st.columns_str)]

ForeignKeyOf(st) ==
    [constraint_name    |-> st.constraint,
     columns            |-> column_list(st.columns_str),
     referenced_table   |-> st.ref_table,
     referenced_columns |-> column_list(st.ref_columns_str)]

RECURSIVE ForeignKeysLastOnly(_)
\* foreign keys stored like primary keys: each statement replaces the table's entry
ForeignKeysLastOnly(ms) ==
    IF ms = <<>> THEN <<>>
    ELSE LET st == ms[Len(ms)]
         IN  (st.table :> <<ForeignKeyOf(st)>>)
             @@ ForeignKeysLastOnly(SubSeq(ms, 1, Len(ms) - 1))

RECURSIVE ForeignKeys(_)
ForeignKeys(ms) ==
    IF ms = <<>> THEN <<>>
    ELSE LET st   == ms[Len(ms)]
             prev == ForeignKeys(SubSeq(ms, 1, Len(ms) - 1))
             old  == IF st.table \in DOMAIN prev THEN prev[st.table] ELSE <<>>
         IN  (st.table :> Append(old, ForeignKeyOf(st))) @@ prev

\* _parse_foreign_keys
parse_foreign_keys(doc) == ForeignKeys(Matches(doc, "foreign_key"))

\* lines 26-36: the merge of one table
MergeTable(t, tcs, ccs, pks, fks) ==
    LET cc == IF t.name \in DOMAIN ccs THEN ccs[t.name] ELSE <<>>
    IN  [t EXCEPT
           !.comment      = Get(tcs, t.name),
           !.columns      = [k \in 1..Len(t.columns) |->
                               [t.columns[k] EXCEPT !.comment = Get(cc, t.columns[k].name)]],
           !.primary_key  = IF t.name \in DOMAIN pks THEN Some(pks[t.name]) ELSE @,
           !.foreign_keys = IF t.name \in DOMAIN fks THEN fks[t.name] ELSE @]

\* a merge that looks each name up once: only the first entry of a name is merged
MergeAllFirstOfName(ts, tcs, ccs, pks, fks) ==
    [k \in 1..Len(ts) |->
        IF \E h \in 1..(k - 1) : ts[h].name = ts[k].name
        THEN ts[k]
        ELSE MergeTable(ts[k], tcs, ccs, pks, fks)]

\* lines 25-36
MergeAll(ts, tcs, ccs, pks, fks) ==
    [k \in 1..Len(ts) |-> MergeTable(ts[k], tcs, ccs, pks, fks)]

-----------------------------------------------------------------------------
(* The statements documents are built from.  Each is given with the first line *)
(* of its text; len is the length of the whole text.                           *)

\* --   Schema   : HR
stSchema ==
    [kind |-> "schema",
     name |-> <<"H","R">>,
     len |-> 19]

\* --   Database Version   : 19.0.0.0.0 
stVersion ==
    [kind |-> "version",
     text |-> <<"1","9",".","0",".","0",".","0",".","0"," ">>,
     len |-> 38]

\* -- Row Count: 42
stHint42 ==
    [kind |-> "hint",
     digits |-> <<"4","2">>,
     len |-> 17]

\* -- Row Count:7
stHint7 ==
    [kind |-> "hint",
     digits |-> <<"7">>,
     len |-> 15]

\* -- ===================================== ...
stFiller ==
    [kind |-> "filler",
     len |-> 250]

\* CREATE TABLE EMP
stTableEmp ==
    [kind |-> "table",
     schema |-> None,
     name |-> <<"E","M","P">>,
     block |-> <<" "," ","I","D"," ","N","U","M","B","E","R","(","1","0",")"," ","N","O","T"," ","N","U","L","L",",","\n"," "," ","N","A","M","E"," ","V","A","R","C","H","A","R","2","(","5","0"," ","B","Y","T","E",")">>,
     len |-> 90]

\* CREATE TABLE APP.EMP
stTableAppEmp ==
    [kind |-> "table",
     schema |-> Some(<<"A","P","P">>),
     name |-> <<"E","M","P">>,
     block |-> <<" "," ","I","D"," ","N","U","M","B","E","R">>,
     len |-> 39]

\* create table DEPT (
stTableDept ==
    [kind |-> "table",
     schema |-> None,
     name |-> <<"D","E","P","T">>,
     block |-> <<" "," ","I","D"," ","N","U","M","B","E","R","(","4",")",",","\n"," "," ","C","O","D","E"," ","V","A","R","C","H","A","R","2","(","1","0",",","2",")">>,
     len |-> 62]

\* ALTER TABLE EMP ADD (
stPkEmp ==
    [kind |-> "primary_key",
     table |-> <<"E","M","P">>,
     constraint |-> <<"P","K","_","E","M","P">>,
     columns_str |-> <<"I","D">>,
     len |-> 65]

\* ALTER TABLE EMP ADD (
stPkEmp2 ==
    [kind |-> "primary_key",
     table |-> <<"E","M","P">>,
     constraint |-> <<"P","K","_","E","M","P","2">>,
     columns_str |-> <<"N","A","M","E",",","\n"," "," "," ","I","D">>,
     len |-> 75]

\* ALTER TABLE DEPT ADD (
stPkDept ==
    [kind |-> "primary_key",
     table |-> <<"D","E","P","T">>,
     constraint |-> <<"P","K","_","D","E","P","T">>,
     columns_str |-> <<"I","D">>,
     len |-> 67]

\* ALTER TABLE EMP ADD (
stFkEmp ==
    [kind |-> "foreign_key",
     table |-> <<"E","M","P">>,
     constraint |-> <<"F","K","_","E","M","P","_","D","E","P","T">>,
     columns_str |-> <<"D","E","P","T","_","I","D">>,
     ref_table |-> <<"D","E","P","T">>,
     ref_columns_str |-> <<"I","D">>,
     len |-> 96]

\* ALTER TABLE EMP ADD (
stFkEmp2 ==
    [kind |-> "foreign_key",
     table |-> <<"E","M","P">>,
     constraint |-> <<"F","K","_","E","M","P","_","X">>,
     columns_str |-> <<"A",","," ","B">>,
     ref_table |-> <<"D","E","P","T">>,
     ref_columns_str |-> <<"X">>,
     len |-> 89]

\* ALTER TABLE DEPT ADD (
stFkDept ==
    [kind |-> "foreign_key",
     table |-> <<"D","E","P","T">>,
     constraint |-> <<"F","K","_","D","E","P","T","_","M","G","R">>,
     columns_str |-> <<"M","G","R">>,
     ref_table |-> <<"E","M","P">>,
     ref_columns_str |-> <<"I","D">>,
     len |-> 92]

\* COMMENT ON TABLE HR.EMP IS 'It''s';
stTableComment ==
    [kind |-> "table_comment",
     table |-> <<"E","M","P">>,
     text |-> <<"'","I","t","'","'","s","'",";","\n">>,
     len |-> 36]

\* COMMENT ON COLUMN HR.EMP.ID IS 'the ''''key''''';
stColumnComment ==
    [kind |-> "column_comment",
     table |-> <<"E","M","P">>,
     column |-> <<"I","D">>,
     text |-> <<"'","t","h","e"," ","'","'","'","'","k","e","y","'","'","'","'","'",";","\n">>,
     len |-> 50]

\* CREATE OR REPLACE FORCE VIEW V_EMP
stView ==
    [kind |-> "view",
     schema |-> None,
     name |-> <<"V","_","E","M","P">>,
     columns_str |-> <<"I","D",",","\n"," ","N","A","M","E">>,
     select |-> <<"S","E","L","E","C","T"," ","E",".","I","D",","," ","E",".","N","A","M","E","\n"," "," ","F","R","O","M"," ","E","M","P"," ","E","\n"," ","W","H","E","R","E"," ","E",".","I","D"," ","I","S"," ","N","O","T"," ","N","U","L","L","\n"," "," "," ","A","N","D"," ","E",".","N","A","M","E"," ","I","S"," ","N","O","T"," ","N","U","L","L","\n"," "," "," ","A","N","D"," ","E",".","I","D"," ",">"," ","0"," ","/","*"," ","a","c","t","i","v","e"," ","e","m","p","l","o","y","e","e","s"," ","o","n","l","y",","," ","s","e","e"," ","t","i","c","k","e","t"," ","*","/",";">>,
     len |-> 198]

\* CREATE OR REPLACE PACKAGE PKG AS
stPackage ==
    [kind |-> "package",
     schema |-> None,
     name |-> <<"P","K","G">>,
     procs |-> <<[name |-> <<"G","E","T","_","D","A","T","A">>, params_str |-> <<"P","_","I","D"," ","I","N"," ","N","U","M","B","E","R",",","\n"," "," "," "," ","P","_","C","U","R"," ","O","U","T"," ","S","Y","S","_","R","E","F","C","U","R","S","O","R">>], [name |-> <<"P","I","N","G">>, params_str |-> <<>>]>>,
     len |-> 133]

Statements ==
    {stSchema,
     stHint42,
     stHint7,
     stFiller,
     stTableEmp,
     stTableAppEmp,
     stTableDept,
     stPkEmp,
     stPkEmp2,
     stPkDept,
     stFkEmp,
     stFkEmp2,
     stFkDept,
     stTableComment,
     stColumnComment,
     stView,
     stPackage}

-----------------------------------------------------------------------------
(* parse(): the eight extraction passes, the merge and the return *)

kwOracle == <<"o","r","a","c","l","e">>

\* lines 38-46 (extracted_at, the time of the call, is not modelled)
ReturnOf(md, ts, vs, ps) ==
    [database_type    |-> kwOracle,
     database_version |-> md.database_version,
     schema_name      |-> DefaultSchema(md),
     tables           |-> ts,
     views            |-> vs,
     procedures       |-> ps]

\* bounds of the inputs
MaxStatements == 3

MaxStatementsAnyOrder == 2

MaxLines == 2

MaxParams == 2

MaxUnits == 4

\* the sequences of at most n elements of S
SeqUpTo(S, n) == UNION {[1..k -> S] : k \in 0..n}

\* the extraction passes, in the order parse() calls them (lines 15-22)
PassOrder == <<"metadata", "tables", "table_comments", "column_comments",
               "views", "procedures", "primary_keys", "foreign_keys">>

Passes == {PassOrder[k] : k \in 1..Len(PassOrder)}

\* the merge loop started without waiting for the foreign keys
MergeReadsSkippingForeignKeys == {"tables", "table_comments", "column_comments", "primary_keys"}

\* what the merge loop reads (lines 25-36)
MergeReads == {"tables", "table_comments", "column_comments", "primary_keys", "foreign_keys"}

\* pass p is the next statement of parse()
InOrder(p) ==
    /\ p \notin done
    /\ \A k \in 1..Len(PassOrder) :
          PassOrder[k] = p => \A j \in 1..(k - 1) : PassOrder[j] \in done

\* pass p has not run yet: the passes scheduled freely
AnyOrder(p) == p \notin done

pipeVars == <<metadata, tables, table_comments, column_comments, views,
              procedures, primary_keys, foreign_keys, schema_model, merges>>

unitVars == <<columns_block, columns, params_str, procedure, comment_src, comment>>

PipeIdle ==
    /\ metadata = None /\ tables = <<>> /\ table_comments = <<>>
    /\ column_comments = <<>> /\ views = <<>> /\ procedures = <<>>
    /\ primary_keys = <<>> /\ foreign_keys = <<>>
    /\ schema_model = None /\ merges = 0

UnitIdle ==
    /\ columns_block = <<>> /\ columns = <<>> /\ params_str = <<>>
    /\ procedure = None /\ comment_src = <<>> /\ comment = None

\* line 15
ParseMetadata(ready) ==
    /\ ready
    /\ metadata' = parse_metadata(content)
    /\ done' = done \cup {"metadata"}
    /\ UNCHANGED <<content, tables, table_comments, column_comments, views, procedures,
                   primary_keys, foreign_keys, schema_model, merges, unitVars>>

\* line 16
ParseTables(ready) ==
    /\ ready
    /\ tables' = parse_tables(content)
    /\ done' = done \cup {"tables"}
    /\ UNCHANGED <<content, metadata, table_comments, column_comments, views, procedures,
                   primary_keys, foreign_keys, schema_model, merges, unitVars>>

\* line 17
ParseTableComments(ready) ==
    /\ ready
    /\ table_comments' = parse_table_comments(content)
    /\ done' = done \cup {"table_comments"}
    /\ UNCHANGED <<content, metadata, tables, column_comments, views, procedures,
                   primary_keys, foreign_keys, schema_model, merges, unitVars>>

\* line 18
ParseColumnComments(ready) ==
    /\ ready
    /\ column_comments' = parse_column_comments(content)
    /\ done' = done \cup {"column_comments"}
    /\ UNCHANGED <<content, metadata, tables, table_comments, views, procedures,
                   primary_keys, foreign_keys, schema_model, merges, unitVars>>

\* line 19
ParseViews(ready) ==
    /\ ready
    /\ views' = parse_views(content)
    /\ done' = done \cup {"views"}
    /\ UNCHANGED <<content, metadata, tables, table_comments, column_comments, procedures,
                   primary_keys, foreign_keys, schema_model, merges, unitVars>>

\* line 20
ParseProcedures(ready) ==
    /\ ready
    /\ procedures' = parse_procedures(content)
    /\ done' = done \cup {"procedures"}
    /\ UNCHANGED <<content, metadata, tables, table_comments, column_comments, views,
                   primary_keys, foreign_keys, schema_model, merges, unitVars>>

\* line 21
ParsePrimaryKeys(ready) ==
    /\ ready
    /\ primary_keys' = parse_primary_keys(content)
    /\ done' = done \cup {"primary_keys"}
    /\ UNCHANGED <<content, metadata, tables, table_comments, column_comments, views,
                   procedures, foreign_keys, schema_model, merges, unitVars>>

\* line 22
ParseForeignKeys(ready) ==
    /\ ready
    /\ foreign_keys' = parse_foreign_keys(content)
    /\ done' = done \cup {"foreign_keys"}
    /\ UNCHANGED <<content, metadata, tables, table_comments, column_comments, views,
                   procedures, primary_keys, schema_model, merges, unitVars>>

\* lines 25-36: the merge loop, which mutates the Table objects of tables
Merge(ready) ==
    /\ ready
    /\ "merge" \notin done
    /\ tables' = MergeAll(tables, table_comments, column_comments, primary_keys, foreign_keys)
    /\ merges' = merges + 1
    /\ done' = done \cup {"merge"}
    /\ UNCHANGED <<content, metadata, table_comments, column_comments, views, procedures,
                   primary_keys, foreign_keys, schema_model, unitVars>>

\* lines 38-46
Return ==
    /\ Passes \cup {"merge"} \subseteq done
    /\ "return" \notin done
    /\ schema_model' = Some(ReturnOf(metadata, tables, views, procedures))
    /\ done' = done \cup {"return"}
    /\ UNCHANGED <<content, metadata, tables, table_comments, column_comments, views,
                   procedures, primary_keys, foreign_keys, merges, unitVars>>

\* parse() as written: one document, the passes in program order
Init ==
    /\ content \in SeqUpTo(Statements, MaxStatements)
    /\ done = {}
    /\ PipeIdle
    /\ UnitIdle

Next ==
    \/ ParseMetadata(InOrder("metadata"))
    \/ ParseTables(InOrder("tables"))
    \/ ParseTableComments(InOrder("table_comments"))
    \/ ParseColumnComments(InOrder("column_comments"))
    \/ ParseViews(InOrder("views"))
    \/ ParseProcedures(InOrder("procedures"))
    \/ ParsePrimaryKeys(InOrder("primary_keys"))
    \/ ParseForeignKeys(InOrder("foreign_keys"))
    \/ Merge(Passes \subseteq done)
    \/ Return

Spec == Init /\ [][Next]_vars

\* parse() with its passes scheduled in any order, the merge as soon as the passes
\* it reads from are done
\* a statement for each pattern to find
StatementsAnyOrder ==
    {stSchema, stVersion, stTableEmp, stTableComment, stColumnComment,
     stView, stPackage, stPkEmp, stFkEmp}

InitAnyOrder ==
    /\ content \in SeqUpTo(StatementsAnyOrder, MaxStatementsAnyOrder)
    /\ done = {}
    /\ PipeIdle
    /\ UnitIdle

NextAnyOrder ==
    \/ ParseMetadata(AnyOrder("metadata"))
    \/ ParseTables(AnyOrder("tables"))
    \/ ParseTableComments(AnyOrder("table_comments"))
    \/ ParseColumnComments(AnyOrder("column_comments"))
    \/ ParseViews(AnyOrder("views"))
    \/ ParseProcedures(AnyOrder("procedures"))
    \/ ParsePrimaryKeys(AnyOrder("primary_keys"))
    \/ ParseForeignKeys(AnyOrder("foreign_keys"))
    \/ Merge(MergeReads \subseteq done)
    \/ Return

SpecAnyOrder == InitAnyOrder /\ [][NextAnyOrder]_vars

\* parse() on documents where several table blocks may carry one name: the table
\* blocks first, then comment and constraint statements, none of them twice
MaxTables == 2

MaxAnnotations == 4

TableStatements == {stTableEmp, stTableAppEmp, stTableDept}

AnnotationStatements == {stTableComment, stColumnComment, stPkEmp, stFkEmp, stFkDept}

NoRepeat(s) == \A i, j \in 1..Len(s) : i # j => s[i] # s[j]

InitSameName ==
    /\ \E ts \in SeqUpTo(TableStatements, MaxTables) :
          \E an \in {s \in SeqUpTo(AnnotationStatements, MaxAnnotations) : NoRepeat(s)} :
              content = ts \o an
    /\ done = {}
    /\ PipeIdle
    /\ UnitIdle

SpecSameName == InitSameName /\ [][Next]_vars

-----------------------------------------------------------------------------
(* _parse_columns on its own: one call on a table body *)

\* lines of table bodies, as an export writes them and as it might
ColumnLines == {
    <<" "," ","I","D"," ","N","U","M","B","E","R","(","1","0",")"," ","N","O","T"," ","N","U","L","L",",">>,
    <<" "," ","N","A","M","E"," ","V","A","R","C","H","A","R","2","(","5","0"," ","B","Y","T","E",")",",">>,
    <<" "," ","A","M","T"," ","N","U","M","B","E","R","(","1","0",",","2",")"," ","D","E","F","A","U","L","T"," ","0"," ","N","O","T"," ","N","U","L","L",",">>,
    <<" "," ","C","O","D","E"," ","V","A","R","C","H","A","R","2","(","1","0",",","2",")",",">>,
    <<" "," ","D"," ","N","U","M","B","E","R"," ","D","E","F","A","U","L","T"," ","R","O","U","N","D","(","1",",","2",")"," ","N","O","T"," ","N","U","L","L",",">>,
    <<" "," ","C","O","N","S","T","R","A","I","N","T"," ","C","H","A","R","_","C","K"," ","C","H","E","C","K"," ","(","X"," ",">"," ","0",")">>,
    <<" "," ","T","S"," ","T","I","M","E","S","T","A","M","P","(","6",")",",">>,
    <<" "," ","f","l","a","g"," ","c","h","a","r","(","1",")"," ","n","o","t"," ","n","u","l","l",",">>,
    <<" "," ","X"," ","N","U","M","B","E","R"," ","N","O","T"," "," ","N","U","L","L",",">>,
    <<" "," ","R"," ","R","A","W","(","1","6",")"," ","N","U","L","L",",">>,
    <<" "," ","Q"," ","N","U","M","B","E","R","(","5",","," ","2",")"," ","N","O","T"," ","N","U","L","L",",">>,
    <<" "," ","C"," ","C","L","O","B">> }

Blocks == {join(<<"\n">>, ls) : ls \in SeqUpTo(ColumnLines, MaxLines)}

InitColumns ==
    /\ columns_block \in Blocks
    /\ columns = <<>> /\ params_str = <<>> /\ procedure = None
    /\ comment_src = <<>> /\ comment = None
    /\ content = <<>>
    /\ done = {}
    /\ PipeIdle

\* line 91
CallParseColumns ==
    /\ "_parse_columns" \notin done
    /\ columns' = parse_columns(columns_block)
    /\ done' = done \cup {"_parse_columns"}
    /\ UNCHANGED <<content, pipeVars, columns_block, params_str, procedure,
                   comment_src, comment>>

NextColumns == CallParseColumns

SpecColumns == InitColumns /\ [][NextColumns]_vars

-----------------------------------------------------------------------------
(* _parse_procedures on one PROCEDURE declaration of a package *)

\* parameter declarations
ParamPieces == {
    <<"P","_","I","D"," ","I","N"," ","N","U","M","B","E","R">>,
    <<"P","_","C","U","R"," ","O","U","T"," ","S","Y","S","_","R","E","F","C","U","R","S","O","R">>,
    <<"p","_","c"," ","i","n"," ","o","u","t"," ","s","y","s","_","r","e","f","c","u","r","s","o","r">>,
    <<"P","_","X"," ","I","N"," ","O","U","T"," ","N","U","M","B","E","R">>,
    <<"P","_","R"," ","I","N"," ","S","Y","S","_","R","E","F","C","U","R","S","O","R">>,
    <<"P","_","N"," ","N","U","M","B","E","R">>,
    <<"P","_","D"," ","O","U","T"," ","T","(","1",",","2",")">>,
    <<"P","_","T"," ","O","U","T"," ","R","E","F">>,
    <<"c"," ","O","U","T"," ","R","e","f"," ","C","u","r","s","o","r">>,
    <<"O","U","T"," ","S","Y","S","_","R","E","F","C","U","R","S","O","R">>,
    <<"P","_","I","O"," ","I","N"," ","O","U","T">> }

ParamSeparator == <<",","\n"," "," "," "," ">>

ParamStrings == {join(ParamSeparator, ps) : ps \in SeqUpTo(ParamPieces, MaxParams)}

kwPKG == <<"P","K","G">>

kwGET_DATA == <<"G","E","T","_","D","A","T","A">>

InitProcedures ==
    /\ params_str \in ParamStrings
    /\ procedure = None
    /\ columns_block = <<>> /\ columns = <<>>
    /\ comment_src = <<>> /\ comment = None
    /\ content = <<>>
    /\ done = {}
    /\ PipeIdle

\* lines 231-250, for one match of proc_pattern
CallParseProcedure ==
    /\ "_parse_procedures" \notin done
    /\ procedure' = Some(ProcedureOf(UNKNOWN, kwPKG,
                                     [name |-> kwGET_DATA, params_str |-> params_str]))
    /\ done' = done \cup {"_parse_procedures"}
    /\ UNCHANGED <<content, pipeVars, columns_block, columns, params_str,
                   comment_src, comment>>

NextProcedures == CallParseProcedure

SpecProcedures == InitProcedures /\ [][NextProcedures]_vars

-----------------------------------------------------------------------------
(* _parse_table_comments on one COMMENT ON statement *)

\* what a comment literal is written from: a character, or an escaped quote
CommentUnits == {<<"a">>, <<" ">>, <<"'", "'">>}

\* what follows the literal's last unit: the closing quote, or nothing
CommentTails == {<<"'", ";">>, <<>>}

RECURSIVE Concat(_)
Concat(ss) == IF ss = <<>> THEN <<>> ELSE ss[1] \o Concat(Tail(ss))

CommentSources ==
    {<<"'">> \o Concat(us) \o tail : us \in SeqUpTo(CommentUnits, MaxUnits),
                                     tail \in CommentTails}

InitComments ==
    /\ comment_src \in CommentSources
    /\ comment = None
    /\ columns_block = <<>> /\ columns = <<>>
    /\ params_str = <<>> /\ procedure = None
    /\ content = <<>>
    /\ done = {}
    /\ PipeIdle

\* lines 145-147, for one statement
CallParseComment ==
    /\ "_parse_table_comments" \notin done
    /\ LET m == CommentMatch(comment_src)
       IN  comment' = IF m.matched THEN Some(unescape(m.comment)) ELSE None
    /\ done' = done \cup {"_parse_table_comments"}
    /\ UNCHANGED <<content, pipeVars, columns_block, columns, params_str, procedure,
                   comment_src>>

NextComments == CallParseComment

SpecComments == InitComments /\ [][NextComments]_vars

\* parse() on documents of table blocks, each behind what may precede it: nothing,
\* hints, a long separator
MaxBlocks == 2

Prefixes ==
    {<<>>, <<stHint42>>, <<stHint7>>, <<stHint42, stHint7>>,
     <<stFiller>>, <<stHint7, stFiller>>, <<stFiller, stHint7>>}

Sections == {p \o <<t>> : p \in Prefixes, t \in TableStatements}

InitHints ==
    /\ \E ss \in SeqUpTo(Sections, MaxBlocks) : content = Concat(ss)
    /\ done = {}
    /\ PipeIdle
    /\ UnitIdle

SpecHints == InitHints /\ [][Next]_vars

-----------------------------------------------------------------------------
(* Properties *)

\* C1: in every Column _parse_columns produces, max_length and precision/scale are
\* never both populated: a column with a max_length has neither precision nor scale
\* (also when a character type is written with two size components, '(n,m)').
\* The call on a body holding "CODE VARCHAR2(10,2)" violates it: scale (line 132) is
\* set from the second component whatever the type.
C1_LengthXorPrecisionScale ==
    \A k \in 1..Len(columns) :
        columns[k].max_length # None =>
            columns[k].precision = None /\ columns[k].scale = None

kwNOT == <<"N","O","T">>

kwNULL == <<"N","U","L","L">>

\* the text of line from position p on holds NOT, whitespace, NULL (in any case)
NotNullFrom(line, p) ==
    \E q \in p..Len(line) :
        /\ StartsWithAtCI(line, q, kwNOT)
        /\ LET w == SkipWhile(line, q + Len(kwNOT), Whitespace)
           IN  w > q + Len(kwNOT) /\ StartsWithAtCI(line, w, kwNULL)

\* C7: every column declaration recognized in a table body gives a column with
\* nullable = FALSE if the declaration carries a NOT NULL modifier after its type,
\* and nullable = TRUE otherwise (also with a DEFAULT expression before NOT NULL).
\* A declaration is a line of the body that col_pattern matches and whose first
\* word is no constraint keyword; its modifiers start where the type (and size) end.
\* "D NUMBER DEFAULT ROUND(1,2) NOT NULL" violates it: the modifier text the pattern
\* captures stops at the first comma.
C7_NullableIffNoNotNull ==
    "_parse_columns" \in done =>
        LET lines == split(columns_block, "\n")
        IN  \A i \in 1..Len(lines) :
                LET m == ColMatch(lines[i], 1)
                IN  (m.matched /\ upper(m.name) \notin NonColumnWords) =>
                        /\ \E k \in 1..Len(columns) : columns[k].name = m.name
                        /\ \A k \in 1..Len(columns) :
                              columns[k].name = m.name =>
                                  columns[k].nullable =
                                      ~NotNullFrom(lines[i], m.end - Len(m.rest))

\* the statements of one kind about table name, in document order
StatementsFor(kind, name) ==
    SelectSeq(content, LAMBDA st : st.kind = kind /\ st.table = name)

\* the number of occurrences of character c in s
CountChar(s, c) == Cardinality({i \in 1..Len(s) : s[i] = c})

\* the tables of the returned SchemaModel
ReturnedTables == IF schema_model = None THEN <<>> ELSE schema_model[1].tables

\* C2 (as claimed): every ForeignKey _parse_foreign_keys produces, and so every
\* ForeignKey attached to a Table after parse, has as many local column names as
\* referenced column names, whatever the text of the statement.
C2_EqualLength ==
    /\ \A n \in DOMAIN foreign_keys : \A k \in 1..Len(foreign_keys[n]) :
          Len(foreign_keys[n][k].columns) = Len(foreign_keys[n][k].referenced_columns)
    /\ \A i \in 1..Len(ReturnedTables) : \A k \in 1..Len(ReturnedTables[i].foreign_keys) :
          Len(ReturnedTables[i].foreign_keys[k].columns)
              = Len(ReturnedTables[i].foreign_keys[k].referenced_columns)

\* ForeignKey fk has one local column per comma-separated piece of the FOREIGN KEY
\* list of statement st and one referenced column per piece of its REFERENCES list
ListsCounted(fk, st) ==
    /\ Len(fk.columns) = CountChar(st.columns_str, ",") + 1
    /\ Len(fk.referenced_columns) = CountChar(st.ref_columns_str, ",") + 1
    /\ (Len(fk.columns) = Len(fk.referenced_columns))
          <=> (CountChar(st.columns_str, ",") = CountChar(st.ref_columns_str, ","))

\* C2 (amended): the k-th ForeignKey produced for a table name, and the k-th
\* attached to a Table of that name, comes from the k-th foreign-key statement for
\* that name; its local columns are the comma-separated pieces of that statement's
\* FOREIGN KEY list and its referenced columns those of its REFERENCES list, so the
\* two sequences have equal length exactly when the two lists hold as many commas.
C2_LengthsFollowLists ==
    /\ \A n \in DOMAIN foreign_keys :
          /\ Len(foreign_keys[n]) = Len(StatementsFor("foreign_key", n))
          /\ \A k \in 1..Len(foreign_keys[n]) :
                ListsCounted(foreign_keys[n][k], StatementsFor("foreign_key", n)[k])
    /\ \A i \in 1..Len(ReturnedTables) :
          LET t == ReturnedTables[i]
          IN  /\ Len(t.foreign_keys) = Len(StatementsFor("foreign_key", t.name))
              /\ \A k \in 1..Len(t.foreign_keys) :
                    ListsCounted(t.foreign_keys[k], StatementsFor("foreign_key", t.name)[k])

\* C2 witness: parse has returned a table carrying a foreign key whose two column
\* sequences differ in length
C2_Witness ==
    \E i \in 1..Len(ReturnedTables) : \E k \in 1..Len(ReturnedTables[i].foreign_keys) :
        Len(ReturnedTables[i].foreign_keys[k].columns)
            # Len(ReturnedTables[i].foreign_keys[k].referenced_columns)

\* C4: after parse, the primary key of a table is the one of the last primary-key
\* statement for the table's name in the document (its constraint name, its columns
\* in declared order); a table with no such statement has no primary key.
C4_LastPrimaryKeyWins ==
    \A i \in 1..Len(ReturnedTables) :
        LET t   == ReturnedTables[i]
            pks == StatementsFor("primary_key", t.name)
        IN  IF pks = <<>> THEN t.primary_key = None
            ELSE t.primary_key =
                    Some([constraint_name |-> pks[Len(pks)].constraint,
                          columns         |-> column_list(pks[Len(pks)].columns_str)])

\* C4 witness: a returned table whose name has several primary-key statements with
\* different constraint names
C4_Witness ==
    \E i \in 1..Len(ReturnedTables) :
        LET pks == StatementsFor("primary_key", ReturnedTables[i].name)
        IN  /\ Len(pks) >= 2
            /\ pks[1].constraint # pks[Len(pks)].constraint
            /\ ReturnedTables[i].primary_key # None

\* C5: after parse, a table's foreign_keys holds exactly the foreign-key statements
\* for the table's name, one entry per statement, in document order; it is empty
\* for a table with no such statement.
C5_ForeignKeysInDocumentOrder ==
    \A i \in 1..Len(ReturnedTables) :
        LET t   == ReturnedTables[i]
            fks == StatementsFor("foreign_key", t.name)
        IN  /\ Len(t.foreign_keys) = Len(fks)
            /\ \A k \in 1..Len(fks) :
                  /\ t.foreign_keys[k].constraint_name = fks[k].constraint
                  /\ t.foreign_keys[k].referenced_table = fks[k].ref_table
                  /\ t.foreign_keys[k].columns = column_list(fks[k].columns_str)
                  /\ t.foreign_keys[k].referenced_columns = column_list(fks[k].ref_columns_str)

\* C5 witness: a returned table with two foreign keys of different constraint names
C5_Witness ==
    \E i \in 1..Len(ReturnedTables) :
        /\ Len(ReturnedTables[i].foreign_keys) = 2
        /\ ReturnedTables[i].foreign_keys[1].constraint_name
              # ReturnedTables[i].foreign_keys[2].constraint_name

\* C8: a table block with a schema qualifier gives a Table whose schema_name is the
\* qualifier; one without gives the value of the document's schema marker, or
\* "UNKNOWN" when the document has none.  So no Table and no SchemaModel has an
\* empty schema_name.
C8_SchemaName ==
    schema_model # None =>
        LET blocks  == Matches(content, "table")
            markers == Matches(content, "schema")
            default == IF markers = <<>> THEN UNKNOWN ELSE markers[1].name
        IN  /\ Len(ReturnedTables) = Len(blocks)
            /\ \A k \in 1..Len(blocks) :
                  /\ blocks[k].schema # None =>
                        ReturnedTables[k].schema_name = blocks[k].schema[1]
                  /\ blocks[k].schema = None => ReturnedTables[k].schema_name = default
                  /\ ReturnedTables[k].schema_name # <<>>
            /\ schema_model[1].schema_name = default
            /\ schema_model[1].schema_name # <<>>

\* C8 witness: a returned model with a table that took its block's qualifier and a
\* table that took "UNKNOWN", the document having no schema marker
C8_Witness ==
    /\ Matches(content, "schema") = <<>>
    /\ \E i, j \in 1..Len(ReturnedTables) :
          /\ ReturnedTables[i].schema_name = UNKNOWN
          /\ ReturnedTables[j].schema_name # UNKNOWN

\* the hints that start within the LOOKBACK characters before statement i
HintsInWindow(i) ==
    {j \in 1..(i - 1) : content[j].kind = "hint"
                        /\ Offset(content, i) - Offset(content, j) <= LOOKBACK}

\* the positions in content of the table blocks, in document order
TableBlocks == SelectSeq([i \in 1..Len(content) |-> i], LAMBDA i : content[i].kind = "table")

\* C10: the row_count of a table depends only on the (at most) 200 characters before
\* the start of its CREATE TABLE block: it is the number of a 'Row Count:' hint
\* lying in that window, and 0 when the window holds none; a hint more than 200
\* characters before the block never sets it.
C10_RowCountFromWindow ==
    schema_model # None =>
        /\ Len(ReturnedTables) = Len(TableBlocks)
        /\ \A k \in 1..Len(TableBlocks) :
              LET hints == HintsInWindow(TableBlocks[k])
              IN  /\ ReturnedTables[k].row_count >= 0
                  /\ hints = {} => ReturnedTables[k].row_count = 0
                  /\ hints # {} =>
                        \E j \in hints : ReturnedTables[k].row_count = int(content[j].digits)

\* C10 witness: a returned table with row_count 0 although a hint precedes its
\* block, more than 200 characters before it
C10_Witness ==
    schema_model # None /\
    \E k \in 1..Len(TableBlocks) :
        /\ ReturnedTables[k].row_count = 0
        /\ \E j \in 1..(TableBlocks[k] - 1) :
              /\ content[j].kind = "hint"
              /\ Offset(content, TableBlocks[k]) - (Offset(content, j) + content[j].len)
                    > LOOKBACK

\* what parse() returns for document doc, its statements taken in program order
ParseOf(doc) ==
    ReturnOf(parse_metadata(doc),
             MergeAll(parse_tables(doc), parse_table_comments(doc),
                      parse_column_comments(doc), parse_primary_keys(doc),
                      parse_foreign_keys(doc)),
             parse_views(doc), parse_procedures(doc))

\* a step changes a result structure only by running the pass that owns it (tables
\* also by the merge), and never changes the document
PassesWriteDisjoint ==
    /\ content' = content
    /\ metadata' # metadata => done' = done \cup {"metadata"} /\ "metadata" \notin done
    /\ tables' # tables =>
          \/ done' = done \cup {"tables"} /\ "tables" \notin done
          \/ done' = done \cup {"merge"} /\ "merge" \notin done
    /\ table_comments' # table_comments =>
          done' = done \cup {"table_comments"} /\ "table_comments" \notin done
    /\ column_comments' # column_comments =>
          done' = done \cup {"column_comments"} /\ "column_comments" \notin done
    /\ views' # views => done' = done \cup {"views"} /\ "views" \notin done
    /\ procedures' # procedures => done' = done \cup {"procedures"} /\ "procedures" \notin done
    /\ primary_keys' # primary_keys =>
          done' = done \cup {"primary_keys"} /\ "primary_keys" \notin done
    /\ foreign_keys' # foreign_keys =>
          done' = done \cup {"foreign_keys"} /\ "foreign_keys" \notin done

\* the merge runs once, after the passes it reads from
MergeOnceAfterItsReads ==
    /\ merges' # merges =>
          /\ merges = 0 /\ merges' = 1
          /\ {"tables", "table_comments", "column_comments",
              "primary_keys", "foreign_keys"} \subseteq done
    /\ "return" \in done' => merges' = 1

\* C3: the extraction passes read only the document and write disjoint result
\* structures, so whatever order they run in, the returned SchemaModel holds the
\* same tables, views and procedures as in program order; the merge runs exactly
\* once, and only after every pass it reads from.
C3_PassOrderIrrelevant ==
    /\ [](schema_model # None =>
            /\ schema_model[1].tables = ParseOf(content).tables
            /\ schema_model[1].views = ParseOf(content).views
            /\ schema_model[1].procedures = ParseOf(content).procedures)
    /\ [][PassesWriteDisjoint /\ MergeOnceAfterItsReads]_vars

\* C3 witness: the merge has attached a primary key and a comment before the views
\* and the metadata pass have run, the foreign keys pass having run before the
\* tables pass would in program order
C3_Witness ==
    /\ "merge" \in done
    /\ "views" \notin done
    /\ "metadata" \notin done
    /\ \E i \in 1..Len(tables) : tables[i].primary_key # None \/ tables[i].comment # None

\* C6: has_refcursor_out of a procedure is TRUE exactly when one of its parameters
\* has direction OUT or IN OUT and a data_type holding both REF and CURSOR, in any
\* case; it is FALSE for an empty parameter list and when every parameter is IN.
C6_RefcursorOut ==
    procedure # None =>
        LET ps == procedure[1].parameters
            isRefCursor(dt) ==
                /\ \E p \in 1..Len(dt) : StartsWithAtCI(dt, p, kwREF)
                /\ \E p \in 1..Len(dt) : StartsWithAtCI(dt, p, kwCURSOR)
        IN  /\ procedure[1].has_refcursor_out <=>
                  \E k \in 1..Len(ps) :
                      /\ ps[k].direction = kwOUT \/ ps[k].direction = kwIN_OUT
                      /\ isRefCursor(ps[k].data_type)
            /\ ps = <<>> => ~procedure[1].has_refcursor_out
            /\ (\A k \in 1..Len(ps) : ps[k].direction = kwIN) => ~procedure[1].has_refcursor_out

\* C6 witness: a procedure with has_refcursor_out, whose only such parameter is an
\* IN OUT one written in lower case
C6_Witness ==
    /\ procedure # None
    /\ procedure[1].has_refcursor_out
    /\ \A k \in 1..Len(procedure[1].parameters) :
          procedure[1].parameters[k].direction # kwOUT
    /\ \E k \in 1..Len(procedure[1].parameters) :
          /\ procedure[1].parameters[k].direction = kwIN_OUT
          /\ ~contains(procedure[1].parameters[k].data_type, kwCURSOR)

\* the body of the literal comment_src: what lies between its delimiting quotes
CommentBody == CommentMatch(comment_src).comment

RECURSIVE UnitsUnescaped(_, _)
\* s from p on, read unit by unit as the pattern reads it, each pair of quotes
\* giving one quote and any other character itself
UnitsUnescaped(s, p) ==
    IF p > Len(s) THEN <<>>
    ELSE IF StartsWithAt(s, p, <<"'", "'">>)
         THEN <<"'">> \o UnitsUnescaped(s, p + 2)
         ELSE <<s[p]>> \o UnitsUnescaped(s, p + 1)

\* C9 (as claimed): the stored comment is its literal's body with each pair of
\* adjacent quotes turned into one quote, and unescaping the stored comment again
\* returns it unchanged.
C9_UnescapeIdempotent ==
    comment # None =>
        /\ comment[1] = UnitsUnescaped(CommentBody, 1)
        /\ unescape(comment[1]) = comment[1]

\* C9 (amended): the stored comment is its literal's body with each pair of adjacent
\* quotes turned into one quote; unescaping it again returns it unchanged exactly
\* when it holds no two adjacent quotes, that is when the body holds no four.
C9_UnescapeOnce ==
    comment # None =>
        /\ comment[1] = UnitsUnescaped(CommentBody, 1)
        /\ CountChar(comment[1], "'") * 2 = CountChar(CommentBody, "'")
        /\ (unescape(comment[1]) = comment[1]) <=> ~contains(comment[1], <<"'", "'">>)
        /\ contains(comment[1], <<"'", "'">>)
              <=> contains(CommentBody, <<"'", "'", "'", "'">>)

\* C9 witness: a stored comment that came from a body with an escaped quote and
\* that unescaping again leaves unchanged
C9_Witness ==
    /\ comment # None
    /\ contains(CommentBody, <<"'", "'">>)
    /\ contains(comment[1], <<"'">>)
    /\ unescape(comment[1]) = comment[1]

\* the comment recorded for table name N: the unescaped body of the last table
\* comment statement naming N
RecordedComment(N) ==
    LET cs == SelectSeq(content, LAMBDA st : st.kind = "table_comment" /\ st.table = N
                                              /\ CommentMatch(st.text).matched)
    IN  IF cs = <<>> THEN None
        ELSE Some(unescape(CommentMatch(cs[Len(cs)].text).comment))

\* the comment recorded for column C of table name N
RecordedColumnComment(N, C) ==
    LET cs == SelectSeq(content, LAMBDA st : st.kind = "column_comment" /\ st.table = N
                                              /\ st.column = C
                                              /\ CommentMatch(st.text).matched)
    IN  IF cs = <<>> THEN None
        ELSE Some(unescape(CommentMatch(cs[Len(cs)].text).comment))

\* the primary key recorded for table name N
RecordedPrimaryKey(N) ==
    LET pks == StatementsFor("primary_key", N)
    IN  IF pks = <<>> THEN None
        ELSE Some([constraint_name |-> pks[Len(pks)].constraint,
                   columns         |-> column_list(pks[Len(pks)].columns_str)])

\* the constraint names of the foreign keys recorded for table name N
RecordedForeignKeyNames(N) ==
    LET fks == StatementsFor("foreign_key", N)
    IN  [k \in 1..Len(fks) |-> fks[k].constraint]

\* C11: the merge is keyed by table name alone.  After parse, every Table entry
\* named N, whatever its schema_name and however many entries the document gave
\* that name, carries the comment, the primary key and the foreign keys recorded
\* for N, and each of its columns named C the column comment recorded for (N, C);
\* so two entries with one name never differ in their keys or comments.
C11_MergeKeyedByName ==
    /\ \A i \in 1..Len(ReturnedTables) :
          LET t == ReturnedTables[i]
          IN  /\ t.comment = RecordedComment(t.name)
              /\ t.primary_key = RecordedPrimaryKey(t.name)
              /\ [k \in 1..Len(t.foreign_keys) |-> t.foreign_keys[k].constraint_name]
                    = RecordedForeignKeyNames(t.name)
              /\ \A k \in 1..Len(t.columns) :
                    t.columns[k].comment = RecordedColumnComment(t.name, t.columns[k].name)
    /\ \A i, j \in 1..Len(ReturnedTables) :
          LET t == ReturnedTables[i]
              u == ReturnedTables[j]
          IN  t.name = u.name =>
                  /\ t.comment = u.comment
                  /\ t.primary_key = u.primary_key
                  /\ t.foreign_keys = u.foreign_keys
                  /\ \A k \in 1..Len(t.columns) : \A l \in 1..Len(u.columns) :
                        t.columns[k].name = u.columns[l].name =>
                            t.columns[k].comment = u.columns[l].comment

\* C11 witness: two returned entries of one name and different schema_name, both
\* carrying a comment, a primary key, a foreign key and a commented column
C11_Witness ==
    \E i, j \in 1..Len(ReturnedTables) :
        LET t == ReturnedTables[i]
            u == ReturnedTables[j]
        IN  /\ i # j
            /\ t.name = u.name
            /\ t.schema_name # u.schema_name
            /\ t.comment # None /\ u.comment # None
            /\ t.primary_key # None /\ u.primary_key # None
            /\ t.foreign_keys # <<>> /\ u.foreign_keys # <<>>
            /\ \E k \in 1..Len(t.columns) : t.columns[k].comment # None
            /\ \E l \in 1..Len(u.columns) : u.columns[l].comment # None

\* C12: a hint is not consumed by the table it precedes.  When the 200 characters
\* before a table block hold more than one 'Row Count:' hint, row_count is the
\* number of the earliest of them, not of the one nearest the block; so a block
\* that starts within 200 characters after another table's hint takes that
\* table's number, also when a hint of its own stands right before it.
C12_EarliestHintInWindow ==
    schema_model # None =>
        /\ Len(ReturnedTables) = Len(TableBlocks)
        /\ \A k \in 1..Len(TableBlocks) :
              LET hints == HintsInWindow(TableBlocks[k])
              IN  hints # {} =>
                      ReturnedTables[k].row_count = int(content[Min(hints)].digits)

\* C12 witness: a returned table with a hint of its own right before its block
\* whose row_count is the different number of the hint before an earlier block
C12_Witness ==
    schema_model # None /\
    \E k \in 1..Len(TableBlocks) : \E h \in 1..(k - 1) :
        LET own   == TableBlocks[k] - 1
            other == TableBlocks[h] - 1
        IN  /\ other >= 1
            /\ content[own].kind = "hint"
            /\ content[other].kind = "hint"
            /\ int(content[own].digits) # int(content[other].digits)
            /\ ReturnedTables[k].row_count = int(content[other].digits)
            /\ ReturnedTables[h].row_count = int(content[other].digits)

====
